---- MODULE Spec2Model ----
(***************************************************************************)
(* A model of deid_export/container_export.py: the metadata reconciler     *)
(* (create_metadata_dict), the container matchers (find_or_create_...),   *)
(* the SessionExporter, the parallel executor (local_file_export) and the  *)
(* top-level driver (export_container).                                    *)
(*                                                                         *)
(* Python values are modelled as follows.  A str that the code inspects    *)
(* character by character (a code or a label) is a sequence of one-        *)
(* character strings.  Ids, field names and field values are TLA+ strings; *)
(* None is the string "<None>".  A dict is a function whose domain is its  *)
(* key set.  A list is a sequence.                                         *)
(***************************************************************************)
EXTENDS Integers, Sequences, FiniteSets, TLC

-----------------------------------------------------------------------------
(* State *)

\* create_metadata_dict called on its own
VARIABLES
    arg_origin,   \* the origin snapshot passed to create_metadata_dict
    arg_type,     \* its container type
    arg_config,   \* the config passed (a dict the caller keeps)
    meta_dict,          \* the outcome of the last call
    mdCalls             \* how many calls have been made

\* quote_numeric_string
VARIABLES
    quote_input,     \* the value passed to quote_numeric_string
    quote_output     \* what the call returned, once made

\* the origin and destination stores, the template, a SessionExporter
VARIABLES
    origin_proj,            \* the origin store
    dest,            \* the destination project's containers
    export_config,   \* the template's 'export' section
    exporter,        \* the SessionExporter in progress
    runs,            \* session exports started so far
    changes,         \* relabellings and config edits made so far
    lastMatch        \* what the last matcher call queried and found

\* SessionExporter.local_file_export: the worker pool
VARIABLES
    file_list,       \* the status dicts submitted, in submission order
    workers,         \* each job's worker: its position and its FileExporter
    export_df        \* the rows returned, once the pool has joined

\* export_container
VARIABLES
    container,            \* the scope: the container export_container is given
    df,                   \* the validated subject-code table, or None
    pc,                   \* where export_container is
    exception,            \* the exception that left export_container, if any
    subject,              \* export_container's loop variable 'subject'
    subject_obj,          \* the subject _export_subject is working on
    pending,              \* the sessions _export_subject has still to export
    project_files,        \* the flag of the same name
    subject_files,        \* the flag of the same name
    subj_template_path,   \* the template path sessions are exported with
    subj_error_msg,       \* the derivation error message, None, or unbound
    error_count,          \* the count export_container returns
    subject_error_count,  \* _export_subject's running count
    temp_dirs,            \* the temporary directories that exist
    csv_file,             \* the report file at csv_output_path
    subjects_left,        \* the subjects the project loop has still to visit
    derived,              \* the template derivations attempted, in order
    reports               \* one entry per session handled, in order

metaVars == <<arg_origin, arg_type, arg_config, meta_dict, mdCalls>>
quoteVars == <<quote_input, quote_output>>
storeVars == <<origin_proj, dest, export_config>>
exporterVars == <<exporter, runs, changes, lastMatch>>
execVars == <<file_list, workers, export_df>>
driverVars == <<container, df, pc, exception, subject, subject_obj, pending,
                project_files, subject_files, subj_template_path, subj_error_msg,
                error_count, subject_error_count, temp_dirs, csv_file,
                subjects_left, derived, reports>>

vars == <<metaVars, quoteVars, storeVars, exporterVars, execVars, driverVars>>

-----------------------------------------------------------------------------
(* Python values *)

None == "<None>"

\* The values Python's truth test rejects: None, '', 0, False.
Falsy == {None, "", "<0>", "<False>"}

Truthy(v) == v \notin Falsy

Range(s) == {s[i] : i \in 1..Len(s)}

\* The element of a one-element set.  The(({F(x) : x \in {e}})) is F(e) with e
\* worked out once.
The(S) == CHOOSE x \in S : TRUE

\* dict.get(key) with the default None.
Get(d, key) == IF key \in DOMAIN d THEN d[key] ELSE None

\* str.lower() on the whitelist markers the model uses.
Lower(s) == IF s \in {"all", "All", "ALL"} THEN "all" ELSE s

-----------------------------------------------------------------------------
(* hash_string and quote_numeric_string *)

\* sha1(input).hexdigest(): a digest is a string that differs from its input
\* and differs for different inputs (no collisions among the ids modelled).
hash_string(input_str) == "sha1:" \o input_str

Digits == {"0", "1", "2", "3", "4", "5", "6", "7", "8", "9"}

AllDigits(s, from, to) == \A i \in from..to : s[i] \in Digits

\* The part of s that '$' lets the pattern end at: all of s, or s without the
\* newline it ends with.
BeforeFinalNewline(s) ==
    IF Len(s) >= 1 /\ s[Len(s)] = "\n" THEN SubSeq(s, 1, Len(s) - 1) ELSE s

\* One or more digits, an optional point, zero or more digits.
DigitsPointDigits(s) ==
    \E k \in 1..Len(s) :
        /\ AllDigits(s, 1, k)
        /\ \/ k = Len(s)
           \/ /\ s[k + 1] = "."
              /\ AllDigits(s, k + 2, Len(s))

\* re.match(r'^[\d]+[\.]?[\d]*$', s)
MatchesNumericRegex(s) == DigitsPointDigits(BeforeFinalNewline(s))

\* A Python value handed to quote_numeric_string: a str, or a non-str whose
\* str() form is s.
PyStr(s) == [isstr |-> TRUE, s |-> s]
PyNonStr(s) == [isstr |-> FALSE, s |-> s]

\* quote_numeric_string without the quoting.
quote_nothing(input_str) == input_str.s

quote_numeric_string(input_str) ==
    LET coerced == input_str.s   \* str(input_str) when it is not a str
    IN  IF MatchesNumericRegex(coerced)
        THEN <<"\"">> \o coerced \o <<"\"">>
        ELSE coerced

MaxStrLen == 3

\* The characters inputs are made of: digits, the point, a letter, a newline.
QuoteAlphabet == {"1", "7", ".", "a", "\n"}

QuoteStrings == UNION {[1..n -> QuoteAlphabet] : n \in 0..MaxStrLen}

NotQuoted == <<"<", "n", "o", "t", " ", "c", "a", "l", "l", "e", "d", ">">>

QuoteInputs ==
    /\ quote_input \in {PyStr(x) : x \in QuoteStrings} \cup {PyNonStr(x) : x \in QuoteStrings}
    /\ quote_output = NotQuoted

QuoteIdle ==
    /\ quote_input = PyStr(<<>>)
    /\ quote_output = NotQuoted

\* One call of quote_numeric_string(quote_input).
CallQuoteNumericString ==
    /\ quote_output = NotQuoted
    /\ quote_output' = quote_numeric_string(quote_input)
    /\ UNCHANGED quote_input
    /\ UNCHANGED <<metaVars, storeVars, exporterVars, execVars, driverVars>>

-----------------------------------------------------------------------------
(* create_metadata_dict *)

ContainerTypes == {"subject", "session", "acquisition"}

META_WHITELIST_DICT ==
    [acquisition |-> <<"timestamp", "timezone", "uid">>,
     subject |-> <<"firstname", "lastname", "sex", "cohort", "ethnicity",
                   "race", "species", "strain">>,
     session |-> <<"age", "operator", "timestamp", "timezone", "uid", "weight">>]

\* A whitelist entry of the config: missing, a string, or a list.
WlAbsent == [tag |-> "absent", str |-> "", list |-> <<>>]
WlStr(s) == [tag |-> "str", str |-> s, list |-> <<>>]
WlList(l) == [tag |-> "list", str |-> "", list |-> l]

\* A container config: None, or a dict with an optional 'code'/'label'
\* override and an optional 'whitelist' dict.
NoOverride == <<"<", "n", "o", ">">>
NoConfig ==
    [isdict |-> FALSE, override |-> NoOverride, haswl |-> FALSE,
     metadata |-> WlAbsent, info |-> WlAbsent]
Config(override, metadata, info) ==
    [isdict |-> TRUE, override |-> override, haswl |-> TRUE,
     metadata |-> metadata, info |-> info]

\* An origin snapshot (the to_dict() of a container): its id, its info map
\* (hasinfo = FALSE: no info map, get('info') is None) and its other fields.
Origin(id, hasinfo, info, fields) ==
    [id |-> id, hasinfo |-> hasinfo, info |-> info, fields |-> fields]

EmptyDict == [k \in {} |-> None]

\* The value stored at info.export: the dict {'origin_id': digest}.
ExportStamp(id) == <<"origin_id", hash_string(id)>>

\* Lines 141-153: the metadata whitelist and whether it is the config's own
\* list object (so that append() changes the config).
MetaWlFromConfig(container_type, container_config) ==
    IF container_config.isdict /\ container_config.haswl
    THEN IF container_config.metadata.tag = "list"
         THEN container_config.metadata.list
         ELSE IF /\ container_config.metadata.tag = "str"
                 /\ Lower(container_config.metadata.str) = "all"
              THEN META_WHITELIST_DICT[container_type]
              ELSE <<>>
    ELSE <<>>

InfoAllRequested(container_config) ==
    /\ container_config.isdict
    /\ container_config.haswl
    /\ container_config.info.tag = "str"
    /\ Lower(container_config.info.str) = "all"

InfoWlFromConfig(container_config) ==
    IF /\ container_config.isdict
       /\ container_config.haswl
       /\ container_config.info.tag = "list"
    THEN container_config.info.list
    ELSE <<>>

\* meta_wl after line 153: 'info' is appended when the info whitelist is 'all'.
MetaWl(container_type, container_config) ==
    IF InfoAllRequested(container_config)
    THEN Append(MetaWlFromConfig(container_type, container_config), "info")
    ELSE MetaWlFromConfig(container_type, container_config)

\* The config after the call: meta_wl.append('info') acts on the config's own
\* list when the metadata whitelist is a list (line 145 binds it, no copy).
ConfigAfter(container_type, container_config) ==
    IF /\ InfoAllRequested(container_config)
       /\ container_config.metadata.tag = "list"
    THEN [container_config EXCEPT
            !.metadata = WlList(Append(container_config.metadata.list, "info"))]
    ELSE container_config

\* Lines 155-164: the info map before the export stamp.  copied = TRUE when
\* meta_dict['info'] is the origin's own info object (line 158).
InfoBeforeStamp(origin_container, container_type, container_config) ==
    IF "info" \in Range(MetaWl(container_type, container_config))
    THEN [copied |-> TRUE, isdict |-> origin_container.hasinfo,
          map |-> origin_container.info]
    ELSE [copied |-> FALSE, isdict |-> TRUE,
          map |-> IF origin_container.hasinfo
                  THEN [k \in DOMAIN origin_container.info
                              \cap Range(InfoWlFromConfig(container_config))
                          |-> origin_container.info[k]]
                  ELSE EmptyDict]

\* Line 172 without 'item in meta_whitelist'.
CopiesFieldUnchecked(origin_container, container_type, item) ==
    /\ Truthy(Get(origin_container.fields, item))
    /\ item # "info"

\* Line 172: the condition under which a whitelisted item is copied.
CopiesField(origin_container, container_type, item) ==
    /\ item \in Range(META_WHITELIST_DICT[container_type])
    /\ Truthy(Get(origin_container.fields, item))
    /\ item # "info"

\* Lines 168-173: the top-level fields copied into the payload.
CopiedFields(origin_container, container_type, container_config) ==
    LET keys == {item \in Range(MetaWl(container_type, container_config)) :
                    CopiesField(origin_container, container_type, item)}
    IN  [k \in keys |-> origin_container.fields[k]]

\* Line 131 testing only for None.
HasIdNotNone(origin_container) == origin_container.id # None

\* Line 131: origin_container.get('id') must be there and not empty.
HasId(origin_container) == Truthy(origin_container.id)

\* The payload and the effects of one call.  raised names the exception
\* ("" when the call returns); meta is the payload; config and origin are the
\* two arguments as the call leaves them.
create_metadata_dict(origin_container, container_type, container_config) ==
    The({
        IF ~HasId(origin_container)
        THEN [raised |-> "ValueError", info |-> EmptyDict, fields |-> EmptyDict,
              config |-> container_config, origin |-> origin_container]
        ELSE IF ~before.isdict
        THEN \* line 167 assigns into None
             [raised |-> "TypeError", info |-> EmptyDict, fields |-> EmptyDict,
              config |-> ConfigAfter(container_type, container_config),
              origin |-> origin_container]
        ELSE [raised |-> "",
              info |-> ("export" :> ExportStamp(origin_container.id)) @@ before.map,
              fields |-> CopiedFields(origin_container, container_type,
                                      container_config),
              config |-> ConfigAfter(container_type, container_config),
              origin |-> IF before.copied
                         THEN [origin_container EXCEPT
                                 !.info = ("export" :> ExportStamp(origin_container.id))
                                          @@ before.map]
                         ELSE origin_container]
        : before \in {InfoBeforeStamp(origin_container, container_type,
                                      container_config)}})

\* The keys of the payload dict.
PayloadKeys(result) == {"info"} \cup DOMAIN result.fields

-----------------------------------------------------------------------------
(* The reconciler on its own: create_metadata_dict applied to bounded inputs *)

MaxCalls == 2

NotCalled == [raised |-> "<not called>", info |-> EmptyDict, fields |-> EmptyDict]

\* Origin snapshots: with an id, with an empty id, with no id; with no info
\* map, an empty one, one holding an 'export' entry; with fields that are
\* absent, set, or set to a value Python's truth test rejects.
MetaOriginIds == {"o1", "", None}

MetaOriginInfos ==
    {[hasinfo |-> FALSE, info |-> EmptyDict],
     [hasinfo |-> TRUE, info |-> EmptyDict],
     [hasinfo |-> TRUE,
      info |-> ("export" :> <<"origin_id", "stale">>) @@ ("note" :> <<"val", "n">>)]}

MetaOriginFields ==
    {EmptyDict,
     ("age" :> "30") @@ ("sex" :> "F") @@ ("timestamp" :> "t0")
        @@ ("label" :> "L") @@ ("code" :> "C"),
     ("age" :> "<0>") @@ ("sex" :> "") @@ ("timestamp" :> "t0") @@ ("label" :> "L")}

MetaOrigins ==
    {Origin(id, i.hasinfo, i.info, f) :
        id \in MetaOriginIds, i \in MetaOriginInfos, f \in MetaOriginFields}

MetaWhitelists ==
    {WlAbsent, WlStr("all"), WlStr("ALL"), WlStr("none"),
     WlList(<<"age", "label", "sex", "timestamp">>), WlList(<<"info", "code">>)}

InfoWhitelists ==
    {WlAbsent, WlStr("all"), WlList(<<"export", "note">>), WlList(<<>>)}

MetaConfigs ==
    {NoConfig, [NoConfig EXCEPT !.isdict = TRUE]}
    \cup {Config(NoOverride, m, i) : m \in MetaWhitelists, i \in InfoWhitelists}

MetaInputs ==
    /\ arg_origin \in MetaOrigins
    /\ arg_type \in ContainerTypes
    /\ arg_config \in MetaConfigs
    /\ meta_dict = NotCalled
    /\ mdCalls = 0

MetaIdle ==
    /\ arg_origin = Origin(None, FALSE, EmptyDict, EmptyDict)
    /\ arg_type = "subject"
    /\ arg_config = NoConfig
    /\ meta_dict = NotCalled
    /\ mdCalls = 0

\* One call of create_metadata_dict(arg_origin, arg_type,
\* arg_config); the caller's config and origin are left as the call
\* leaves them.
CallCreateMetadataDict ==
    /\ mdCalls < MaxCalls
    /\ \E r \in {create_metadata_dict(arg_origin, arg_type, arg_config)} :
           /\ meta_dict' = [raised |-> r.raised, info |-> r.info, fields |-> r.fields]
           /\ arg_config' = r.config
           /\ arg_origin' = r.origin
    /\ mdCalls' = mdCalls + 1
    /\ UNCHANGED arg_type
    /\ UNCHANGED <<quoteVars, storeVars, exporterVars, execVars, driverVars>>

-----------------------------------------------------------------------------
(* The origin hierarchy and the destination project *)

\* The origin store: a project, its subjects in listing order, each subject's
\* sessions, each session's acquisitions, every container's code/label and
\* files.  A file is [name, type].
OriginTree(subjects, sessions, acquisitions, label, files) ==
    [subjects |-> subjects, sessions |-> sessions, acquisitions |-> acquisitions,
     label |-> label, files |-> files]

OriginProject == "p0"

\* session.subject: the origin subject a session belongs to.
SubjectOf(tree, session) ==
    CHOOSE sub \in Range(tree.subjects) : session \in Range(tree.sessions[sub])

\* container.reload().to_dict(): the snapshot create_metadata_dict receives.
OriginSnapshot(id) ==
    Origin(id, TRUE, ("note" :> <<"val", "n">>),
           ("age" :> "30") @@ ("sex" :> "F") @@ ("timestamp" :> "t0"))

\* The destination project: its subjects, sessions and acquisitions, each in
\* creation order.  A child is [id, parent, label, info, fields]; a subject's
\* label is its code and its parent is the project (0).
EmptyStore == [subject |-> <<>>, session |-> <<>>, acquisition |-> <<>>]

DestProject == 0

NewId(store) ==
    Len(store.subject) + Len(store.session) + Len(store.acquisition) + 1

\* The remote store's filter language (spec section 6): a value in literal
\* double quotes is a string; a bare value that looks numeric is a number and
\* equals no string field; any other bare value is a string.
IsNumericLiteral(v) ==
    /\ Len(v) >= 1
    /\ \E k \in 1..Len(v) :
        /\ AllDigits(v, 1, k)
        /\ \/ k = Len(v)
           \/ /\ k + 1 < Len(v)
              /\ v[k + 1] = "."
              /\ AllDigits(v, k + 2, Len(v))

ParseFilterValue(v) ==
    IF Len(v) >= 2 /\ v[1] = "\"" /\ v[Len(v)] = "\""
    THEN [kind |-> "string", s |-> SubSeq(v, 2, Len(v) - 1)]
    ELSE IF IsNumericLiteral(v)
         THEN [kind |-> "number", s |-> v]
         ELSE [kind |-> "string", s |-> v]

\* info.export.origin_id of a destination child (None when it has none).
OriginIdOf(child) ==
    IF "export" \in DOMAIN child.info THEN child.info["export"][2] ELSE None

\* A query is a label (or code) condition, given as the text after 'label=',
\* and an optional info.export.origin_id condition, which the code always
\* writes in double quotes (digest = None: no such condition).
MatchesQuery(child, parent, label_value, digest) ==
    /\ child.parent = parent
    /\ ParseFilterValue(label_value).kind = "string"
    /\ child.label = ParseFilterValue(label_value).s
    /\ digest # None => OriginIdOf(child) = digest

\* finder.find_first(query): the position of the first match, 0 for None.
FindFirst(children, parent, label_value, digest) ==
    LET hits == {i \in 1..Len(children) :
                    MatchesQuery(children[i], parent, label_value, digest)}
    IN  IF hits = {} THEN 0 ELSE CHOOSE i \in hits : \A j \in hits : i <= j

\* parent.add_<child>(label=..., **meta_dict)
AddChild(store, type, parent, label, payload) ==
    [store EXCEPT ![type] = Append(@, [id |-> NewId(store), parent |-> parent,
                                       label |-> label, info |-> payload.info,
                                       fields |-> payload.fields])]

\* container.update(meta_dict): the payload's fields and info entries replace
\* the container's; what the payload does not name is kept.
UpdateChild(store, type, i, payload) ==
    [store EXCEPT ![type][i].info = payload.info @@ @,
                  ![type][i].fields = payload.fields @@ @]

\* 'if not config: config = dict()'
OrEmptyDict(config) == [config EXCEPT !.isdict = TRUE]

\* config.get('code' / 'label', own)
EffectiveLabel(config, own) ==
    IF config.isdict /\ config.override # NoOverride THEN config.override ELSE own

\* The common tail of the three matchers: query, payload, then create or
\* update.  found is the position of the reused child (0: one was created),
\* id the id of the child returned, config the config as the call leaves it.
FindOrCreate(store, type, parent, label, label_value, digest, origin_id, config) ==
    The({
        IF meta.raised # ""
        THEN [raised |-> meta.raised, store |-> store, found |-> found, id |-> 0,
              label |-> label, digest |-> hash_string(origin_id),
              config |-> meta.config]
        ELSE IF found = 0
        THEN [raised |-> "", store |-> AddChild(store, type, parent, label, meta),
              found |-> 0, id |-> NewId(store),
              label |-> label, digest |-> hash_string(origin_id),
              config |-> meta.config]
        ELSE [raised |-> "", store |-> UpdateChild(store, type, found, meta),
              found |-> found, id |-> store[type][found].id,
              label |-> label, digest |-> hash_string(origin_id),
              config |-> meta.config]
        : found \in {FindFirst(store[type], parent, label_value, digest)},
          meta \in {create_metadata_dict(OriginSnapshot(origin_id), type, config)}})

\* find_or_create_subject querying, as the other two matchers do, for
\* info.export.origin_id as well.
find_or_create_subject_by_origin_id(store, tree, origin_subject, subject_config) ==
    LET new_code == EffectiveLabel(OrEmptyDict(subject_config), tree.label[origin_subject])
    IN  FindOrCreate(store, "subject", DestProject, new_code,
                     quote_numeric_string(PyStr(new_code)), hash_string(origin_subject),
                     origin_subject, OrEmptyDict(subject_config))

find_or_create_subject(store, tree, origin_subject, subject_config) ==
    LET new_code == EffectiveLabel(OrEmptyDict(subject_config), tree.label[origin_subject])
        query_code == quote_numeric_string(PyStr(new_code))
    IN  FindOrCreate(store, "subject", DestProject, new_code, query_code, None,
                     origin_subject, OrEmptyDict(subject_config))

find_or_create_subject_session(store, tree, origin_session, dest_subject, session_config) ==
    LET new_label == EffectiveLabel(OrEmptyDict(session_config), tree.label[origin_session])
    IN  FindOrCreate(store, "session", dest_subject, new_label,
                     quote_numeric_string(PyStr(new_label)),
                     hash_string(origin_session), origin_session,
                     OrEmptyDict(session_config))

\* The acquisition matcher reads origin_acquisition.label in the query and in
\* add_acquisition: acquisition_config's 'label' is not consulted.
find_or_create_session_acquisition(store, tree, origin_acquisition, dest_session, acquisition_config) ==
    FindOrCreate(store, "acquisition", dest_session, tree.label[origin_acquisition],
                 quote_numeric_string(PyStr(tree.label[origin_acquisition])),
                 hash_string(origin_acquisition), origin_acquisition,
                 OrEmptyDict(acquisition_config))

-----------------------------------------------------------------------------
(* SessionExporter: the matchers run in hierarchy order for one session *)

MaxRuns == 2
MaxChanges == 1

IdleExporter ==
    [pc |-> "idle", origin |-> "", dest_subject |-> 0, dest |-> 0, acq |-> 0,
     config |-> [subject |-> NoConfig, session |-> NoConfig, acquisition |-> NoConfig,
                 file_types |-> <<"dicom">>]]

NoMatch ==
    [type |-> "", found |-> 0, id |-> 0, label |-> NoOverride, digest |-> None,
     spec_label |-> NoOverride, prev_label |-> NoOverride, prev_origin_id |-> None]

\* Two subjects, three sessions, three acquisitions; codes and labels that
\* are numeric, decimal and alphabetic, and two sessions sharing a label.
MatchTree ==
    OriginTree(<<"sub1", "sub2">>,
               ("sub1" :> <<"s1", "s2">>) @@ ("sub2" :> <<"s3">>),
               ("s1" :> <<"a1", "a2">>) @@ ("s2" :> <<>>) @@ ("s3" :> <<"a3">>),
               ("sub1" :> <<"4", "2">>) @@ ("sub2" :> <<"a">>)
                  @@ ("s1" :> <<"1", ".", "5">>) @@ ("s2" :> <<"b">>) @@ ("s3" :> <<"b">>)
                  @@ ("a1" :> <<"9">>) @@ ("a2" :> <<"c">>) @@ ("a3" :> <<"c">>),
               [c \in {OriginProject, "sub1", "sub2", "s1", "s2", "s3", "a1", "a2", "a3"}
                  |-> <<>>])

\* Per-type configs: none, or one with an override and whitelists.
PlainConfig == Config(NoOverride, WlStr("all"), WlList(<<"note">>))
OverrideConfig(label) == Config(label, WlList(<<"age", "sex">>), WlStr("all"))

SubjectConfigs == {NoConfig, OverrideConfig(<<"7">>)}
SessionConfigs == {PlainConfig, OverrideConfig(<<"x">>)}
AcquisitionConfigs == {PlainConfig, OverrideConfig(<<"c">>)}

ExportConfigs ==
    {[subject |-> a, session |-> b, acquisition |-> c, file_types |-> <<"dicom">>] :
        a \in SubjectConfigs, b \in SessionConfigs, c \in AcquisitionConfigs}

StoreIdle ==
    /\ origin_proj = OriginTree(<<>>, EmptyDict, EmptyDict, EmptyDict, EmptyDict)
    /\ dest = EmptyStore
    /\ export_config = IdleExporter.config

ExporterIdle ==
    /\ exporter = IdleExporter
    /\ runs = 0
    /\ changes = 0
    /\ lastMatch = NoMatch

MatchInit ==
    /\ origin_proj = MatchTree
    /\ dest = EmptyStore
    /\ export_config \in ExportConfigs
    /\ exporter = IdleExporter
    /\ runs = 0
    /\ changes = 0
    /\ lastMatch = NoMatch

\* What a matcher call leaves in lastMatch.  spec_label is the effective
\* label as the documentation defines it: the config's override if it has
\* one, else the origin's own.
MatchRecord(type, r, config, own, store) ==
    [type |-> type, found |-> r.found, id |-> r.id, label |-> r.label,
     digest |-> r.digest,
     spec_label |-> EffectiveLabel(OrEmptyDict(config), own),
     prev_label |-> IF r.found = 0 THEN NoOverride ELSE store[type][r.found].label,
     prev_origin_id |-> IF r.found = 0 THEN None ELSE OriginIdOf(store[type][r.found])]

\* SessionExporter(fw_client, origin_session, dest_proj_id, export_config)
StartExport(s) ==
    /\ exporter.pc = "idle"
    /\ runs < MaxRuns
    /\ runs' = runs + 1
    /\ exporter' = [IdleExporter EXCEPT !.pc = "subject", !.origin = s,
                                        !.config = export_config]
    /\ UNCHANGED <<origin_proj, dest, export_config, changes, lastMatch>>
    /\ UNCHANGED <<metaVars, quoteVars, execVars, driverVars>>

\* SessionExporter.find_or_create_dest_subject
FindOrCreateDestSubject ==
    /\ exporter.pc = "subject"
    /\ \E sub \in {SubjectOf(origin_proj, exporter.origin)} :
       \E r \in {find_or_create_subject(dest, origin_proj, sub,
                                        exporter.config.subject)} :
           /\ dest' = r.store
           /\ exporter' = [exporter EXCEPT
                             !.pc = IF r.raised = "" THEN "session" ELSE "raised",
                             !.dest_subject = r.id,
                             !.config.subject = r.config]
           /\ lastMatch' = MatchRecord("subject", r, exporter.config.subject,
                                       origin_proj.label[sub], dest)
    /\ UNCHANGED <<origin_proj, export_config, runs, changes>>
    /\ UNCHANGED <<metaVars, quoteVars, execVars, driverVars>>

\* SessionExporter.find_or_create_dest
FindOrCreateDest ==
    /\ exporter.pc = "session"
    /\ \E r \in {find_or_create_subject_session(dest, origin_proj, exporter.origin,
                                                 exporter.dest_subject,
                                                 exporter.config.session)} :
           /\ dest' = r.store
           /\ exporter' = [exporter EXCEPT
                             !.pc = IF r.raised = "" THEN "acquisitions" ELSE "raised",
                             !.dest = r.id,
                             !.config.session = r.config]
           /\ lastMatch' = MatchRecord("session", r, exporter.config.session,
                                       origin_proj.label[exporter.origin], dest)
    /\ UNCHANGED <<origin_proj, export_config, runs, changes>>
    /\ UNCHANGED <<metaVars, quoteVars, execVars, driverVars>>

\* One turn of 'for acquisition in self.origin.acquisitions()'
FindOrCreateAcquisition ==
    /\ exporter.pc = "acquisitions"
    /\ exporter.acq < Len(origin_proj.acquisitions[exporter.origin])
    /\ \E a \in {origin_proj.acquisitions[exporter.origin][exporter.acq + 1]} :
       \E r \in {find_or_create_session_acquisition(dest, origin_proj, a,
                                                    exporter.dest,
                                                    exporter.config.acquisition)} :
           /\ dest' = r.store
           /\ exporter' = [exporter EXCEPT
                             !.pc = IF r.raised = "" THEN "acquisitions" ELSE "raised",
                             !.acq = @ + 1,
                             !.config.acquisition = r.config]
           /\ lastMatch' = MatchRecord("acquisition", r, exporter.config.acquisition,
                                       origin_proj.label[a], dest)
    /\ UNCHANGED <<origin_proj, export_config, runs, changes>>
    /\ UNCHANGED <<metaVars, quoteVars, execVars, driverVars>>

\* The loop is over: the exporter is dropped.
FinishExport ==
    /\ exporter.pc = "acquisitions"
    /\ exporter.acq = Len(origin_proj.acquisitions[exporter.origin])
    /\ exporter' = [exporter EXCEPT !.pc = "idle"]
    /\ UNCHANGED <<origin_proj, dest, export_config, runs, changes, lastMatch>>
    /\ UNCHANGED <<metaVars, quoteVars, execVars, driverVars>>

AllSessions(t) == UNION {Range(t.sessions[sub]) : sub \in Range(t.subjects)}

\* Between runs a user renames an origin container ...
RelabelTargets == {"sub2", "s1", "a1"}
RelabelLabels == {<<"b">>, <<"4", "2">>}

Relabel(c, l) ==
    /\ exporter.pc = "idle"
    /\ changes < MaxChanges
    /\ origin_proj.label[c] # l
    /\ origin_proj' = [origin_proj EXCEPT !.label[c] = l]
    /\ changes' = changes + 1
    /\ UNCHANGED <<dest, export_config, exporter, runs, lastMatch>>
    /\ UNCHANGED <<metaVars, quoteVars, execVars, driverVars>>

\* ... or edits the template's export section.
ChangeConfig(cfg) ==
    /\ exporter.pc = "idle"
    /\ changes < MaxChanges
    /\ cfg # export_config
    /\ export_config' = cfg
    /\ changes' = changes + 1
    /\ UNCHANGED <<origin_proj, dest, exporter, runs, lastMatch>>
    /\ UNCHANGED <<metaVars, quoteVars, execVars, driverVars>>


-----------------------------------------------------------------------------
(* The parallel executor: SessionExporter.local_file_export and its workers *)

MaxJobs == 3
PoolWidth == 2

\* FileExporter.get_status_dict().  export_parent is <<id>> for the destination
\* container with that id and <<>> for None.
StatusDict(origin_parent, origin_parent_type, origin_filename, export_parent, export_filename, fe) ==
    [origin_filename |-> origin_filename, origin_parent |-> origin_parent,
     origin_parent_type |-> origin_parent_type, export_filename |-> export_filename,
     export_file_id |-> fe.export_file_id, export_parent |-> export_parent,
     state |-> fe.state, errors |-> fe.errors]

\* A FileExporter as its constructor leaves it: pending, or already in error
\* when the constructor found the job unusable.
NewFileExporter(state) ==
    [state |-> state, errors |-> IF state = "error" THEN "init failed" ELSE None,
     export_file_id |-> None]

\* FileExporter.local_deid_export(template_path): the de-identify-and-upload
\* call, retried inside; it ends in success or in error with the message
\* captured, and does not raise.
local_deid_export(fe, ok) ==
    IF ok
    THEN [fe EXCEPT !.state = "success", !.export_file_id = "fid"]
    ELSE [fe EXCEPT !.state = "error", !.errors = "transfer failed"]

\* Lines 350-351 without the state test.
ShouldExportAlways(fe) == TRUE

\* Line 350: the transfer is attempted unless the exporter is in error.
ShouldExport(fe) == fe.state # "error"

JobName(i) == <<"f1", "f2", "f3", "f4", "f5">>[i]

\* The status dicts of n exporters built for one session, states as given.
JobList(states) ==
    [i \in 1..Len(states) |->
        StatusDict("s1", "session", JobName(i), <<1>>, None, NewFileExporter(states[i]))]

StateLists == UNION {[1..n -> {"pending", "error"}] : n \in 0..MaxJobs}

QueuedWorker == [pc |-> "queued", fe |-> NewFileExporter("pending"), outcome |-> "none",
                 status |-> <<>>]

NotReturned == [returned |-> FALSE, rows |-> <<>>]

ExecInit ==
    /\ file_list \in {JobList(st) : st \in StateLists}
    /\ workers = [i \in 1..Len(file_list) |-> QueuedWorker]
    /\ export_df = NotReturned

ExecIdle ==
    /\ file_list = <<>>
    /\ workers = <<>>
    /\ export_df = NotReturned

Running == {i \in 1..Len(workers) : workers[i].pc \notin {"queued", "done"}}

\* joblib hands job i to a free worker, in submission order; the worker
\* builds its own client and FileExporter from the status dict (lines
\* 341-349).  The constructor sees what the submitting side's saw.
StartWorker(i) ==
    /\ workers[i].pc = "queued"
    /\ \A j \in 1..(i - 1) : workers[j].pc # "queued"
    /\ Cardinality(Running) < PoolWidth
    /\ workers' = [workers EXCEPT ![i].pc = "constructed",
                                  ![i].fe = NewFileExporter(file_list[i].state)]
    /\ UNCHANGED <<file_list, export_df>>
    /\ UNCHANGED <<metaVars, quoteVars, storeVars, exporterVars, driverVars>>

\* Lines 350-351: the transfer, whose outcome the remote side decides.
Transfer(i, ok) ==
    /\ workers[i].pc = "constructed"
    /\ ShouldExport(workers[i].fe)
    /\ workers' = [workers EXCEPT ![i].pc = "settling",
                                  ![i].fe = local_deid_export(@, ok),
                                  ![i].outcome = IF ok THEN "ok" ELSE "failed"]
    /\ UNCHANGED <<file_list, export_df>>
    /\ UNCHANGED <<metaVars, quoteVars, storeVars, exporterVars, driverVars>>

\* Line 350, the other branch: an exporter in error is not transferred.
SkipTransfer(i) ==
    /\ workers[i].pc = "constructed"
    /\ ~ShouldExport(workers[i].fe)
    /\ workers' = [workers EXCEPT ![i].pc = "settling"]
    /\ UNCHANGED <<file_list, export_df>>
    /\ UNCHANGED <<metaVars, quoteVars, storeVars, exporterVars, driverVars>>

\* Lines 353-357: after the settle delay the worker returns its status dict.
ReadBack(i) ==
    /\ workers[i].pc = "settling"
    /\ workers' = [workers EXCEPT
                     ![i].pc = "done",
                     ![i].status = StatusDict(file_list[i].origin_parent,
                                              file_list[i].origin_parent_type,
                                              file_list[i].origin_filename,
                                              file_list[i].export_parent,
                                              file_list[i].export_filename,
                                              workers[i].fe)]
    /\ UNCHANGED <<file_list, export_df>>
    /\ UNCHANGED <<metaVars, quoteVars, storeVars, exporterVars, driverVars>>

\* A pool that stops collecting at the first job that ended in error.
RECURSIVE GatherUntilError(_)
GatherUntilError(ws) ==
    IF ws = <<>> THEN <<>>
    ELSE IF Head(ws).status.state = "error" THEN <<Head(ws).status>>
    ELSE <<Head(ws).status>> \o GatherUntilError(Tail(ws))

\* Lines 485-489: Parallel returns one result per job, in submission order.
GatherStatus(ws) == [i \in 1..Len(ws) |-> ws[i].status]

\* A pool that returns once every job has been handed to a worker.
JoinWhenDispatched ==
    /\ ~export_df.returned
    /\ \A i \in 1..Len(workers) : workers[i].pc # "queued"
    /\ export_df' = [returned |-> TRUE, rows |-> GatherStatus(workers)]
    /\ UNCHANGED <<file_list, workers>>
    /\ UNCHANGED <<metaVars, quoteVars, storeVars, exporterVars, driverVars>>

\* Parallel returns when every job has returned; the rows become export_df.
Join ==
    /\ ~export_df.returned
    /\ \A i \in 1..Len(workers) : workers[i].pc = "done"
    /\ export_df' = [returned |-> TRUE, rows |-> GatherStatus(workers)]
    /\ UNCHANGED <<file_list, workers>>
    /\ UNCHANGED <<metaVars, quoteVars, storeVars, exporterVars, driverVars>>

-----------------------------------------------------------------------------
(* initialize_files, export_session and get_session_error_df *)

\* initialize_container_file_export with the empty filename_dict
\* export_session passes: one FileExporter per file of a listed type.
initialize_container_file_export(t, origin_id, origin_type, dest_id, filetype_list) ==
    LET keep == SelectSeq(t.files[origin_id], LAMBDA f : f.type \in Range(filetype_list))
    IN  [i \in 1..Len(keep) |->
            StatusDict(origin_id, origin_type, keep[i].name, <<dest_id>>, None,
                       NewFileExporter("pending"))]

\* Lines 461-476: for each origin acquisition, match or create its
\* destination and initialize its files.
RECURSIVE AcquisitionLoop(_, _, _, _, _, _)
AcquisitionLoop(store, t, acqs, dest_session, config, acc) ==
    IF acqs = <<>>
    THEN [raised |-> "", store |-> store, files |-> acc]
    ELSE The({
            IF r.raised # ""
            THEN [raised |-> r.raised, store |-> r.store, files |-> acc]
            ELSE AcquisitionLoop(
                     r.store, t, Tail(acqs), dest_session,
                     [config EXCEPT !.acquisition = r.config],
                     acc \o initialize_container_file_export(
                                t, Head(acqs), "acquisition", r.id, config.file_types))
            : r \in {find_or_create_session_acquisition(store, t, Head(acqs),
                                                        dest_session,
                                                        config.acquisition)}})

\* Lines 428-447 with the subject-level block ahead of the project-level one.
ScopeFilesSubjectFirst(t, origin_session, dest_subject, config, want_project, want_subject) ==
    (IF want_subject = TRUE
     THEN initialize_container_file_export(t, SubjectOf(t, origin_session), "subject",
                                           dest_subject, config.file_types)
     ELSE <<>>)
    \o
    (IF want_project = TRUE
     THEN initialize_container_file_export(t, OriginProject, "project", DestProject,
                                           config.file_types)
     ELSE <<>>)

\* Lines 428-447: the project-level and subject-level exporters, each only
\* when its flag is set.
ScopeFiles(t, origin_session, dest_subject, config, want_project, want_subject) ==
    (IF want_project = TRUE
     THEN initialize_container_file_export(t, OriginProject, "project", DestProject,
                                           config.file_types)
     ELSE <<>>)
    \o
    (IF want_subject = TRUE
     THEN initialize_container_file_export(t, SubjectOf(t, origin_session), "subject",
                                           dest_subject, config.file_types)
     ELSE <<>>)

\* SessionExporter.initialize_files on a fresh exporter: destination subject,
\* destination session, then the file lists in order.
initialize_files(store, t, origin_session, config, want_project, want_subject) ==
    The({
        IF rs.raised # ""
        THEN [raised |-> rs.raised, store |-> rs.store, files |-> <<>>]
        ELSE The({
                IF rd.raised # ""
                THEN [raised |-> rd.raised, store |-> rd.store, files |-> <<>>]
                ELSE AcquisitionLoop(
                         rd.store, t, t.acquisitions[origin_session], rd.id, config,
                         ScopeFiles(t, origin_session, rs.id, config, want_project,
                                    want_subject)
                         \o initialize_container_file_export(
                                t, origin_session, "session", rd.id, config.file_types))
                : rd \in {find_or_create_subject_session(rs.store, t, origin_session,
                                                         rs.id, config.session)}})
        : rs \in {find_or_create_subject(store, t, SubjectOf(t, origin_session),
                                         config.subject)}})

\* One worker's result for a job whose transfer succeeds (ok) or fails.
WorkerResult(job, ok) ==
    LET fe == NewFileExporter(job.state)
    IN  StatusDict(job.origin_parent, job.origin_parent_type, job.origin_filename,
                   job.export_parent, job.export_filename,
                   IF ShouldExport(fe) THEN local_deid_export(fe, ok) ELSE fe)

\* SessionExporter.local_file_export with the transfers in fails failing.
RunJobs(files, fails) == [i \in 1..Len(files) |-> WorkerResult(files[i], i \notin fails)]

\* get_session_error_df: error rows for the files of the listed types
\* (default: dicom) on the levels asked for.
ErrorRows(t, id, type, error_msg, filetypes) ==
    LET keep == SelectSeq(t.files[id], LAMBDA f : f.type \in Range(filetypes))
    IN  [i \in 1..Len(keep) |->
            [origin_filename |-> keep[i].name, origin_parent |-> id,
             origin_parent_type |-> type, export_filename |-> None,
             export_file_id |-> None, export_parent |-> <<>>,
             state |-> "error", errors |-> error_msg]]

RECURSIVE AcquisitionErrorRows(_, _, _, _)
AcquisitionErrorRows(t, acqs, error_msg, filetypes) ==
    IF acqs = <<>> THEN <<>>
    ELSE ErrorRows(t, Head(acqs), "acquisition", error_msg, filetypes)
         \o AcquisitionErrorRows(t, Tail(acqs), error_msg, filetypes)

get_session_error_df(t, session_obj, error_msg, filetypes, want_project, want_subject) ==
    (IF want_project
     THEN ErrorRows(t, OriginProject, "project", error_msg, filetypes) ELSE <<>>)
    \o (IF want_subject
        THEN ErrorRows(t, SubjectOf(t, session_obj), "subject", error_msg, filetypes)
        ELSE <<>>)
    \o ErrorRows(t, session_obj, "session", error_msg, filetypes)
    \o AcquisitionErrorRows(t, t.acquisitions[session_obj], error_msg, filetypes)

\* session_df['state'].value_counts().get('error', 0)
ErrorRowCount(rows) == Cardinality({i \in 1..Len(rows) : rows[i].state = "error"})

-----------------------------------------------------------------------------
(* export_container *)

Unbound == "<unbound>"

TemplatePath == "template"

\* The temporary directory _export_subject (or the session branch) makes for
\* a subject; the customized template is written inside it.
TempDir(sub) == "tmp:" \o sub

\* A directory that is left behind when its with block ends.
KeepTempDir(dirs, sub) == dirs

\* Lines 632 and 662: leaving 'with tempfile.TemporaryDirectory()', by its end
\* or by an exception, removes the directory and what is in it.
RemoveTempDir(dirs, sub) == dirs \ {TempDir(sub)}

\* open(template_path) succeeds: the original template is always there, a
\* customized one as long as its directory is.
TemplateExists(path, dirs) == path = TemplatePath \/ path \in dirs

File(name, type) == [name |-> name, type |-> type]

\* Two subjects: one with three sessions, one with one; an acquisition; files
\* of exported and of other types on every level.
TreeA ==
    OriginTree(<<"sub1", "sub2">>,
               ("sub1" :> <<"s1", "s2", "s3">>) @@ ("sub2" :> <<"s4">>),
               ("s1" :> <<"a1">>) @@ ("s2" :> <<>>) @@ ("s3" :> <<>>) @@ ("s4" :> <<>>),
               ("sub1" :> <<"4", "2">>) @@ ("sub2" :> <<"a">>)
                  @@ ("s1" :> <<"1", ".", "5">>) @@ ("s2" :> <<"b">>) @@ ("s3" :> <<"c">>)
                  @@ ("s4" :> <<"b">>) @@ ("a1" :> <<"9">>),
               (OriginProject :> <<File("proj.dcm", "dicom")>>)
                  @@ ("sub1" :> <<File("subj.dcm", "dicom"), File("notes.txt", "text")>>)
                  @@ ("sub2" :> <<>>)
                  @@ ("s1" :> <<File("f.dcm", "dicom")>>)
                  @@ ("s2" :> <<File("g.dcm", "dicom"), File("g.txt", "text")>>)
                  @@ ("s3" :> <<File("h.dcm", "dicom")>>)
                  @@ ("s4" :> <<File("k.dcm", "dicom")>>)
                  @@ ("a1" :> <<File("m.dcm", "dicom")>>))

\* A first subject without sessions, and a session without any file of an
\* exported type.
TreeB ==
    OriginTree(<<"sub1", "sub2">>,
               ("sub1" :> <<>>) @@ ("sub2" :> <<"s1", "s2">>),
               ("s1" :> <<"a1">>) @@ ("s2" :> <<>>),
               ("sub1" :> <<"4", "2">>) @@ ("sub2" :> <<"a">>)
                  @@ ("s1" :> <<"b">>) @@ ("s2" :> <<"c">>) @@ ("a1" :> <<"9">>),
               (OriginProject :> <<File("proj.dcm", "dicom")>>)
                  @@ ("sub1" :> <<>>)
                  @@ ("sub2" :> <<File("subj.dcm", "dicom")>>)
                  @@ ("s1" :> <<File("f.dcm", "dicom")>>)
                  @@ ("s2" :> <<File("g.txt", "text")>>)
                  @@ ("a1" :> <<File("m.dcm", "dicom")>>))

\* A first subject without sessions, and every session with a file of an
\* exported type.
TreeC ==
    OriginTree(<<"sub1", "sub2">>,
               ("sub1" :> <<>>) @@ ("sub2" :> <<"s1">>),
               ("s1" :> <<>>),
               ("sub1" :> <<"4", "2">>) @@ ("sub2" :> <<"a">>) @@ ("s1" :> <<"b">>),
               (OriginProject :> <<File("proj.dcm", "dicom")>>)
                  @@ ("sub1" :> <<>>)
                  @@ ("sub2" :> <<>>)
                  @@ ("s1" :> <<File("f.dcm", "dicom")>>))

DriverTrees == {TreeA, TreeB, TreeC}

DriverTemplate ==
    [subject |-> PlainConfig, session |-> PlainConfig, acquisition |-> PlainConfig,
     file_types |-> <<"dicom">>]

\* fw_client.get(container_id): the containers export_container may be given.
Scopes(t) ==
    {[id |-> OriginProject, type |-> "project"]}
    \cup {[id |-> sub, type |-> "subject"] : sub \in Range(t.subjects)}
    \cup {[id |-> "s1", type |-> "session"], [id |-> "a1", type |-> "acquisition"]}

\* The report file: no csv_output_path given, a path with no file yet, or a
\* path whose file an earlier run wrote.
NoCsv == [path |-> None, exists |-> FALSE, headers |-> 0, rows |-> <<>>]
NewCsv == [path |-> "report.csv", exists |-> FALSE, headers |-> 0, rows |-> <<>>]
OldCsv ==
    [path |-> "old.csv", exists |-> TRUE, headers |-> 1,
     rows |-> ErrorRows(TreeA, "s4", "session", "earlier run", <<"dicom">>)]

DriverLocalsInit ==
    /\ pc = "dispatch"
    /\ exception = None
    /\ subject = Unbound
    /\ subject_obj = None
    /\ pending = <<>>
    /\ project_files = FALSE
    /\ subject_files = FALSE
    /\ subj_template_path = Unbound
    /\ subj_error_msg = Unbound
    /\ error_count = 0
    /\ subject_error_count = 0
    /\ temp_dirs = {}
    /\ subjects_left = <<>>
    /\ derived = <<>>
    /\ reports = <<>>

DriverInit ==
    /\ origin_proj \in DriverTrees
    /\ dest = EmptyStore
    /\ export_config = DriverTemplate
    /\ container \in Scopes(origin_proj)
    /\ df \in {None, "DataFrame"}
    /\ csv_file \in {NoCsv, NewCsv, OldCsv}
    /\ DriverLocalsInit

DriverIdle ==
    /\ container = [id |-> OriginProject, type |-> "project"]
    /\ df = None
    /\ csv_file = NoCsv
    /\ DriverLocalsInit

\* load_template_file, SessionExporter, initialize_files, local_file_export:
\* export_session's result is a DataFrame (isdf) or None.  jobs is the number
\* of FileExporters submitted.
export_session(store, t, origin_session_id, template_exists, config, want_project, want_subject, fails) ==
    IF ~template_exists
    THEN [raised |-> "FileNotFoundError", store |-> store, isdf |-> FALSE,
          rows |-> <<>>, jobs |-> 0]
    ELSE The({
            IF init.raised # ""
            THEN [raised |-> init.raised, store |-> init.store, isdf |-> FALSE,
                  rows |-> <<>>, jobs |-> 0]
            ELSE [raised |-> "", store |-> init.store,
                  isdf |-> Len(init.files) >= 1,
                  rows |-> RunJobs(init.files, fails), jobs |-> Len(init.files)]
            : init \in {initialize_files(store, t, origin_session_id, config,
                                         want_project, want_subject)}})

\* Lines 611-615 with the header written by the appending branch too.
WriteReportHeaderEachTime(csv, rows) ==
    IF csv.path = None \/ Len(rows) < 1
    THEN csv
    ELSE IF ~csv.exists
    THEN [csv EXCEPT !.exists = TRUE, !.headers = 1, !.rows = rows]
    ELSE [csv EXCEPT !.headers = @ + 1, !.rows = @ \o rows]

\* Lines 611-615: the header goes out only when the file does not exist yet.
WriteReport(csv, rows) ==
    IF csv.path = None \/ Len(rows) < 1
    THEN csv
    ELSE IF ~csv.exists
    THEN [csv EXCEPT !.exists = TRUE, !.headers = 1, !.rows = rows]
    ELSE [csv EXCEPT !.rows = @ \o rows]

\* _export_session: synthesized error rows when an error message is passed,
\* a real export otherwise; then the error count and the report write.
\* get_session_error_df is called with its default file types and flags.
ExportSessionCall(store, t, session_id, template_exists, config, want_project, want_subject, sess_error_msg, fails, csv) ==
    IF Truthy(sess_error_msg)
    THEN The({
            [raised |-> IF rows = <<>> THEN "KeyError" ELSE "",
             store |-> store, synthesized |-> TRUE, rows |-> rows, jobs |-> 0,
             df_count |-> ErrorRowCount(rows),
             csv |-> IF rows = <<>> THEN csv ELSE WriteReport(csv, rows)]
            : rows \in {get_session_error_df(t, session_id, sess_error_msg,
                                             <<"dicom">>, FALSE, FALSE)}})
    ELSE The({
            IF real.raised # ""
            THEN [raised |-> real.raised, store |-> real.store, synthesized |-> FALSE,
                  rows |-> <<>>, jobs |-> real.jobs, df_count |-> 0, csv |-> csv]
            ELSE IF ~real.isdf
            THEN \* line 609 subscripts None
                 [raised |-> "TypeError", store |-> real.store, synthesized |-> FALSE,
                  rows |-> <<>>, jobs |-> real.jobs, df_count |-> 0, csv |-> csv]
            ELSE [raised |-> "", store |-> real.store, synthesized |-> FALSE,
                  rows |-> real.rows, jobs |-> real.jobs,
                  df_count |-> ErrorRowCount(real.rows),
                  csv |-> WriteReport(csv, real.rows)]
            : real \in {export_session(store, t, session_id, template_exists, config,
                                       want_project, want_subject, fails)}})

\* What reports records of one _export_session call that returned.
ReportEntry(sub, session_id, r, want_project, want_subject, template_exists, touched) ==
    [subject |-> sub, session |-> session_id, synthesized |-> r.synthesized,
     rows |-> r.rows, project_files |-> want_project, subject_files |-> want_subject,
     template_exists |-> template_exists, touched |-> touched]


notDriver == <<metaVars, quoteVars, exporterVars, execVars>>

\* Lines 647-671 without the check: no branch is taken and 0 is returned.
FallThroughContainer ==
    /\ pc = "dispatch"
    /\ container.type \notin {"subject", "project", "session"}
    /\ pc' = "returned"
    /\ UNCHANGED <<container, df, exception, subject, subject_obj, pending,
                   project_files, subject_files, subj_template_path, subj_error_msg,
                   error_count, subject_error_count, temp_dirs, csv_file,
                   subjects_left, derived, reports>>
    /\ UNCHANGED <<storeVars, notDriver>>

\* Lines 647-648: a container that is no project, subject or session.
RejectContainer ==
    /\ pc = "dispatch"
    /\ container.type \notin {"subject", "project", "session"}
    /\ pc' = "raised"
    /\ exception' = "ValueError"
    /\ UNCHANGED <<container, df, subject, subject_obj, pending, project_files,
                   subject_files, subj_template_path, subj_error_msg, error_count,
                   subject_error_count, temp_dirs, csv_file, subjects_left, derived,
                   reports>>
    /\ UNCHANGED <<storeVars, notDriver>>

\* Lines 650-652: project scope, project_files = True, the subjects listed.
DispatchProject ==
    /\ pc = "dispatch"
    /\ container.type = "project"
    /\ project_files' = TRUE
    /\ subjects_left' = origin_proj.subjects
    /\ pc' = "project_loop"
    /\ UNCHANGED <<container, df, exception, subject, subject_obj, pending,
                   subject_files, subj_template_path, subj_error_msg, error_count,
                   subject_error_count, temp_dirs, csv_file, derived, reports>>
    /\ UNCHANGED <<storeVars, notDriver>>

\* Line 652-653: the next subject of the project is handed to _export_subject.
NextSubject ==
    /\ pc = "project_loop"
    /\ subjects_left # <<>>
    /\ subject' = Head(subjects_left)
    /\ subject_obj' = Head(subjects_left)
    /\ pc' = "enter_subject"
    /\ UNCHANGED <<container, df, exception, pending, project_files,
                   subject_files, subj_template_path, subj_error_msg, error_count,
                   subject_error_count, temp_dirs, csv_file, subjects_left, derived,
                   reports>>
    /\ UNCHANGED <<storeVars, notDriver>>

\* Lines 657-659: subject scope, project_files = False.
DispatchSubject ==
    /\ pc = "dispatch"
    /\ container.type = "subject"
    /\ project_files' = FALSE
    /\ subject_obj' = container.id
    /\ pc' = "enter_subject"
    /\ UNCHANGED <<container, df, exception, subject, pending,
                   subject_files, subj_template_path, subj_error_msg, error_count,
                   subject_error_count, temp_dirs, csv_file, subjects_left, derived,
                   reports>>
    /\ UNCHANGED <<storeVars, notDriver>>

\* Lines 631-637 with df None: the directory is made, the original template
\* is kept, and subj_error_msg is not assigned.
EnterSubjectPlain ==
    /\ pc = "enter_subject"
    /\ df = None
    /\ temp_dirs' = temp_dirs \cup {TempDir(subject_obj)}
    /\ subj_template_path' = TemplatePath
    /\ subj_error_msg' = Unbound
    /\ subject_error_count' = 0
    /\ subject_files' = TRUE
    /\ pending' = origin_proj.sessions[subject_obj]
    /\ pc' = "subject_loop"
    /\ UNCHANGED <<container, df, exception, subject, subject_obj, project_files,
                   error_count, csv_file, subjects_left, derived, reports>>
    /\ UNCHANGED <<storeVars, notDriver>>

\* Lines 634-636 and 618-624: deid_template.get_updated_template writes the
\* subject's template into the directory and returns its path.
DeriveTemplate ==
    /\ pc = "enter_subject"
    /\ df # None
    /\ temp_dirs' = temp_dirs \cup {TempDir(subject_obj)}
    /\ subj_template_path' = TempDir(subject_obj)
    /\ subj_error_msg' = None
    /\ derived' = Append(derived, [subject |-> subject_obj, ok |-> TRUE])
    /\ subject_error_count' = 0
    /\ subject_files' = TRUE
    /\ pending' = origin_proj.sessions[subject_obj]
    /\ pc' = "subject_loop"
    /\ UNCHANGED <<container, df, exception, subject, subject_obj, project_files,
                   error_count, csv_file, subjects_left, reports>>
    /\ UNCHANGED <<storeVars, notDriver>>

\* Line 626: the handler's message reads export_container's loop variable
\* 'subject', not subject_obj.  bound: the project loop has assigned it.
DerivationMessage(bound) == IF bound THEN "subject template failed" ELSE Unbound

\* Lines 625-628: get_updated_template raises.  The handler builds the
\* message; where 'subject' was never assigned that is a NameError, which
\* leaves _export_subject (the directory is removed on the way out).
DeriveTemplateFails ==
    /\ pc = "enter_subject"
    /\ df # None
    /\ derived' = Append(derived, [subject |-> subject_obj, ok |-> FALSE])
    /\ IF DerivationMessage(subject # Unbound) = Unbound
       THEN /\ pc' = "raised"
            /\ exception' = "NameError"
            /\ UNCHANGED <<temp_dirs, subj_template_path, subj_error_msg,
                           subject_error_count, subject_files, pending>>
       ELSE /\ temp_dirs' = temp_dirs \cup {TempDir(subject_obj)}
            /\ subj_template_path' = TempDir(subject_obj)
            /\ subj_error_msg' = DerivationMessage(subject # Unbound)
            /\ subject_error_count' = 0
            /\ subject_files' = TRUE
            /\ pending' = origin_proj.sessions[subject_obj]
            /\ pc' = "subject_loop"
            /\ UNCHANGED exception
    /\ UNCHANGED <<container, df, subject, subject_obj, project_files,
                   error_count, csv_file, subjects_left, reports>>
    /\ UNCHANGED <<storeVars, notDriver>>

\* Lines 642-644 with '=' for '+='.
AfterSessionOverwrite(count, df_count) ==
    [subject_error_count |-> df_count, subject_files |-> FALSE,
     project_files |-> FALSE]

\* Lines 642-644 without lines 643 and 644.
AfterSessionKeepFlags(count, df_count) ==
    [subject_error_count |-> count + df_count, subject_files |-> subject_files,
     project_files |-> project_files]

\* Lines 642-644: what one returned _export_session adds to the count and
\* does to the two flags.
AfterSession(count, df_count) ==
    [subject_error_count |-> count + df_count, subject_files |-> FALSE,
     project_files |-> FALSE]

\* Lines 638-644: one turn of 'for session in subject_obj.sessions()'.
\* Reading subj_error_msg when it was never assigned is an UnboundLocalError;
\* an exception inside _export_session leaves the with block too.
ExportNextSession(fails) ==
    /\ pc = "subject_loop"
    /\ pending # <<>>
    /\ IF subj_error_msg = Unbound
       THEN /\ fails = {}
            /\ pc' = "raised"
            /\ exception' = "UnboundLocalError"
            /\ temp_dirs' = RemoveTempDir(temp_dirs, subject_obj)
            /\ UNCHANGED <<dest, csv_file, reports, subject_error_count,
                           subject_files, project_files, pending>>
       ELSE \E r \in {ExportSessionCall(
                          dest, origin_proj, Head(pending),
                          TemplateExists(subj_template_path, temp_dirs), export_config,
                          project_files, subject_files, subj_error_msg, fails,
                          csv_file)} :
            /\ fails \subseteq 1..r.jobs
            /\ dest' = r.store
            /\ csv_file' = r.csv
            /\ IF r.raised # ""
               THEN /\ pc' = "raised"
                    /\ exception' = r.raised
                    /\ temp_dirs' = RemoveTempDir(temp_dirs, subject_obj)
                    /\ UNCHANGED <<reports, subject_error_count, subject_files,
                                   project_files, pending>>
               ELSE /\ reports' =
                          Append(reports,
                                 ReportEntry(subject_obj, Head(pending), r,
                                             project_files, subject_files,
                                             TemplateExists(subj_template_path,
                                                            temp_dirs),
                                             r.store # dest))
                    /\ subject_error_count' =
                          AfterSession(subject_error_count,
                                       r.df_count).subject_error_count
                    /\ subject_files' =
                          AfterSession(subject_error_count, r.df_count).subject_files
                    /\ project_files' =
                          AfterSession(subject_error_count, r.df_count).project_files
                    /\ pending' = Tail(pending)
                    /\ UNCHANGED <<pc, exception, temp_dirs>>
    /\ UNCHANGED <<container, df, subject, subject_obj, subj_template_path,
                   subj_error_msg, error_count, subjects_left, derived>>
    /\ UNCHANGED <<origin_proj, export_config, notDriver>>

\* Lines 654 and 659: how a subject's count enters error_count.
Accumulate(scope_type, total, subj_error_count) ==
    IF scope_type = "project" THEN total + subj_error_count ELSE subj_error_count

\* Line 645, then 654-655 or 659: the with block ends, the directory is
\* removed, and the subject's count goes into error_count.
LeaveSubject ==
    /\ pc = "subject_loop"
    /\ pending = <<>>
    /\ temp_dirs' = RemoveTempDir(temp_dirs, subject_obj)
    /\ error_count' = Accumulate(container.type, error_count, subject_error_count)
    /\ IF container.type = "project"
       THEN /\ project_files' = FALSE
            /\ subjects_left' = Tail(subjects_left)
            /\ pc' = "project_loop"
       ELSE /\ pc' = "return"
            /\ UNCHANGED <<project_files, subjects_left>>
    /\ UNCHANGED <<container, df, exception, subject, subject_obj, pending,
                   subject_files, subj_template_path, subj_error_msg,
                   subject_error_count, csv_file, derived, reports>>
    /\ UNCHANGED <<storeVars, notDriver>>

\* Lines 670-671
Return ==
    /\ \/ pc = "return"
       \/ pc = "project_loop" /\ subjects_left = <<>>
    /\ pc' = "returned"
    /\ UNCHANGED <<container, df, exception, subject, subject_obj, pending,
                   project_files, subject_files, subj_template_path, subj_error_msg,
                   error_count, subject_error_count, temp_dirs, csv_file,
                   subjects_left, derived, reports>>
    /\ UNCHANGED <<storeVars, notDriver>>


\* Lines 661-663: session scope.  The with block opens: the directory is made
\* and sess_template_path starts as the original template.  (The session
\* branch's sess_template_path and session_export_error are held in
\* subj_template_path and subj_error_msg.)
DispatchSession ==
    /\ pc = "dispatch"
    /\ container.type = "session"
    /\ subject_obj' = SubjectOf(origin_proj, container.id)
    /\ temp_dirs' = temp_dirs \cup {TempDir(SubjectOf(origin_proj, container.id))}
    /\ subj_template_path' = TemplatePath
    /\ pc' = "session_with"
    /\ UNCHANGED <<container, df, exception, subject, pending, project_files,
                   subject_files, subj_error_msg, error_count, subject_error_count,
                   csv_file, subjects_left, derived, reports>>
    /\ UNCHANGED <<storeVars, notDriver>>

\* Lines 664-666, get_updated_template returning.
SessionDeriveTemplate ==
    /\ pc = "session_with"
    /\ df # None
    /\ subj_template_path' = TempDir(subject_obj)
    /\ subj_error_msg' = None
    /\ derived' = Append(derived, [subject |-> subject_obj, ok |-> TRUE])
    /\ pc' = "session_with_exit"
    /\ UNCHANGED <<container, df, exception, subject, subject_obj, pending,
                   project_files, subject_files, error_count, subject_error_count,
                   temp_dirs, csv_file, subjects_left, reports>>
    /\ UNCHANGED <<storeVars, notDriver>>

\* Lines 664-666, get_updated_template raising: the handler of line 626.
SessionDeriveTemplateFails ==
    /\ pc = "session_with"
    /\ df # None
    /\ derived' = Append(derived, [subject |-> subject_obj, ok |-> FALSE])
    /\ IF DerivationMessage(subject # Unbound) = Unbound
       THEN /\ pc' = "raised"
            /\ exception' = "NameError"
            /\ temp_dirs' = RemoveTempDir(temp_dirs, subject_obj)
            /\ UNCHANGED <<subj_template_path, subj_error_msg>>
       ELSE /\ subj_template_path' = TempDir(subject_obj)
            /\ subj_error_msg' = DerivationMessage(subject # Unbound)
            /\ pc' = "session_with_exit"
            /\ UNCHANGED <<exception, temp_dirs>>
    /\ UNCHANGED <<container, df, subject, subject_obj, pending, project_files,
                   subject_files, error_count, subject_error_count, csv_file,
                   subjects_left, reports>>
    /\ UNCHANGED <<storeVars, notDriver>>

\* The with block of lines 662-666 ends before line 667: the directory and
\* what was written into it are removed.
SessionLeaveWith ==
    /\ \/ pc = "session_with" /\ df = None
       \/ pc = "session_with_exit"
    /\ temp_dirs' = RemoveTempDir(temp_dirs, subject_obj)
    /\ pc' = "session_export"
    /\ UNCHANGED <<container, df, exception, subject, subject_obj, pending,
                   project_files, subject_files, subj_template_path, subj_error_msg,
                   error_count, subject_error_count, csv_file, subjects_left, derived,
                   reports>>
    /\ UNCHANGED <<storeVars, notDriver>>

\* Lines 667-668: _export_session for the one session, with the default
\* flags.  session_export_error is read whether or not it was assigned.
SessionExport(fails) ==
    /\ pc = "session_export"
    /\ IF subj_error_msg = Unbound
       THEN /\ fails = {}
            /\ pc' = "raised"
            /\ exception' = "UnboundLocalError"
            /\ UNCHANGED <<dest, csv_file, reports, error_count>>
       ELSE \E r \in {ExportSessionCall(
                          dest, origin_proj, container.id,
                          TemplateExists(subj_template_path, temp_dirs), export_config,
                          FALSE, FALSE, subj_error_msg, fails, csv_file)} :
            /\ fails \subseteq 1..r.jobs
            /\ dest' = r.store
            /\ csv_file' = r.csv
            /\ IF r.raised # ""
               THEN /\ pc' = "raised"
                    /\ exception' = r.raised
                    /\ UNCHANGED <<reports, error_count>>
               ELSE /\ reports' =
                          Append(reports,
                                 ReportEntry(subject_obj, container.id, r, FALSE, FALSE,
                                             TemplateExists(subj_template_path,
                                                            temp_dirs),
                                             r.store # dest))
                    /\ error_count' = r.df_count
                    /\ pc' = "return"
                    /\ UNCHANGED exception
    /\ UNCHANGED <<container, df, subject, subject_obj, pending, project_files,
                   subject_files, subj_template_path, subj_error_msg,
                   subject_error_count, temp_dirs, subjects_left, derived>>
    /\ UNCHANGED <<origin_proj, export_config, notDriver>>

\* The transfers that may fail in one session: any of its jobs.
MaxSessionJobs == 4

-----------------------------------------------------------------------------
(* Specifications *)

\* create_metadata_dict applied to every bounded input.
InitMeta == MetaInputs /\ QuoteIdle /\ StoreIdle /\ ExporterIdle /\ ExecIdle /\ DriverIdle
NextMeta == CallCreateMetadataDict
SpecMeta == InitMeta /\ [][NextMeta]_vars

\* quote_numeric_string applied to every bounded input.
InitQuote == QuoteInputs /\ MetaIdle /\ StoreIdle /\ ExporterIdle /\ ExecIdle /\ DriverIdle
NextQuote == CallQuoteNumericString
SpecQuote == InitQuote /\ [][NextQuote]_vars

\* Session exports repeated against one destination project, the origin's
\* labels and the template left alone.
InitMatch == MatchInit /\ MetaIdle /\ QuoteIdle /\ ExecIdle /\ DriverIdle
NextMatch ==
    \/ \E s \in AllSessions(origin_proj) : StartExport(s)
    \/ FindOrCreateDestSubject
    \/ FindOrCreateDest
    \/ FindOrCreateAcquisition
    \/ FinishExport
SpecMatch == InitMatch /\ [][NextMatch]_vars

\* The same, with origin containers renamed and the template edited between
\* runs.
NextRelabel ==
    \/ NextMatch
    \/ \E c \in RelabelTargets, l \in RelabelLabels : Relabel(c, l)
    \/ \E cfg \in ExportConfigs : ChangeConfig(cfg)
SpecRelabel == InitMatch /\ [][NextRelabel]_vars

\* The worker pool on every bounded job list, every interleaving.
InitExec == ExecInit /\ MetaIdle /\ QuoteIdle /\ StoreIdle /\ ExporterIdle /\ DriverIdle
NextExec ==
    \/ \E i \in 1..Len(workers) : StartWorker(i)
    \/ \E i \in 1..Len(workers), ok \in BOOLEAN : Transfer(i, ok)
    \/ \E i \in 1..Len(workers) : SkipTransfer(i)
    \/ \E i \in 1..Len(workers) : ReadBack(i)
    \/ Join
SpecExec == InitExec /\ [][NextExec]_vars

\* export_container on every bounded scope, with any derivation and any
\* transfer failing.
InitDriver == DriverInit /\ MetaIdle /\ QuoteIdle /\ ExporterIdle /\ ExecIdle
NextDriver ==
    \/ RejectContainer
    \/ DispatchProject
    \/ NextSubject
    \/ DispatchSubject
    \/ EnterSubjectPlain
    \/ DeriveTemplate
    \/ DeriveTemplateFails
    \/ \E fails \in SUBSET (1..MaxSessionJobs) : ExportNextSession(fails)
    \/ LeaveSubject
    \/ DispatchSession
    \/ SessionDeriveTemplate
    \/ SessionDeriveTemplateFails
    \/ SessionLeaveWith
    \/ \E fails \in SUBSET (1..MaxSessionJobs) : SessionExport(fails)
    \/ Return
SpecDriver == InitDriver /\ [][NextDriver]_vars

-----------------------------------------------------------------------------
(* Properties *)

RECURSIVE SumErrorRows(_)
SumErrorRows(rs) ==
    IF rs = <<>> THEN 0 ELSE ErrorRowCount(Head(rs).rows) + SumErrorRows(Tail(rs))

RECURSIVE SessionsOfSubjects(_, _)
SessionsOfSubjects(t, subs) ==
    IF subs = <<>> THEN <<>>
    ELSE t.sessions[Head(subs)] \o SessionsOfSubjects(t, Tail(subs))

\* The sessions of the scope, in the order export_container visits them.
ScopeSessions ==
    IF container.type = "project" THEN SessionsOfSubjects(origin_proj, origin_proj.subjects)
    ELSE IF container.type = "subject" THEN origin_proj.sessions[container.id]
    ELSE IF container.type = "session" THEN <<container.id>>
    ELSE <<>>

ReportsOf(sub) == SelectSeq(reports, LAMBDA r : r.subject = sub)

HasLevel(report, level) ==
    \E i \in 1..Len(report.rows) : report.rows[i].origin_parent_type = level

StampedSessions(s) ==
    {i \in 1..Len(dest.session) : OriginIdOf(dest.session[i]) = hash_string(s)}

\* C1: however often one origin session is exported into the destination
\* project (labels and config unchanged), at most one destination session
\* carries info.export.origin_id = hash(origin session id), and once the
\* session step of a run is over there is exactly one, the one the run holds.
C1_IdempotentSessionExport ==
    \A s \in AllSessions(origin_proj) :
        /\ Cardinality(StampedSessions(s)) <= 1
        /\ (exporter.origin = s /\ exporter.pc = "acquisitions") =>
              /\ Cardinality(StampedSessions(s)) = 1
              /\ \A i \in StampedSessions(s) : dest.session[i].id = exporter.dest

\* A second run of the session with the decimal label has matched the session
\* the first run created.
C1_Witness ==
    /\ runs = 2
    /\ exporter.pc = "acquisitions"
    /\ lastMatch.type = "session"
    /\ lastMatch.found # 0
    /\ lastMatch.label = <<"1", ".", "5">>
    /\ Len(dest.session) = 1

FailedDerivations == {derived[i].subject : i \in {j \in 1..Len(derived) : ~derived[j].ok}}

\* C2: for a project, subject or session scope, with or without the
\* subject-code table, and whichever transfers fail, export_container does not
\* end in an exception (template derivation not failing).
C2_ExportContainerReturns ==
    (container.type \in {"project", "subject", "session"} /\ FailedDerivations = {})
        => pc # "raised"

FailedTransfers == {i \in 1..Len(workers) : workers[i].outcome = "failed"}
MarkedError == {i \in 1..Len(file_list) : file_list[i].state = "error"}
RowsInState(st) == {i \in 1..Len(export_df.rows) : export_df.rows[i].state = st}

\* C3: the rows the executor returns are one per job submitted, in order;
\* a job's row is in error exactly when its own transfer failed (or it was
\* in error when submitted) and in success otherwise; every job not in error
\* when submitted had its transfer attempted; so with exactly one failing
\* transfer among N jobs there is one error row and N-1 success rows.
C3_PartialFailureIsolation ==
    export_df.returned =>
        /\ Len(export_df.rows) = Len(file_list)
        /\ \A i \in 1..Len(file_list) :
              /\ export_df.rows[i].origin_filename = file_list[i].origin_filename
              /\ export_df.rows[i].origin_parent = file_list[i].origin_parent
              /\ export_df.rows[i].state =
                    IF i \in FailedTransfers \cup MarkedError THEN "error" ELSE "success"
              /\ i \notin MarkedError => workers[i].outcome # "none"
        /\ (Cardinality(FailedTransfers) = 1 /\ MarkedError = {}) =>
              /\ Cardinality(RowsInState("error")) = 1
              /\ Cardinality(RowsInState("success")) = Len(file_list) - 1

\* Three jobs, the second one's transfer failed, the pool has returned.
C3_Witness ==
    /\ export_df.returned
    /\ Len(file_list) = 3
    /\ MarkedError = {}
    /\ FailedTransfers = {2}

\* C4: when a subject's template derivation fails, export_container does not
\* end in an exception, none of the subject's sessions is exported (every
\* report of the subject is synthesized and left the destination untouched),
\* and once export_container has returned every session of the subject has
\* its report.
C4_DerivationFailureIsolated ==
    \A sub \in FailedDerivations :
        /\ pc # "raised"
        /\ \A i \in 1..Len(ReportsOf(sub)) :
              /\ ReportsOf(sub)[i].synthesized
              /\ ~ReportsOf(sub)[i].touched
        /\ pc = "returned" =>
              [i \in 1..Len(ReportsOf(sub)) |-> ReportsOf(sub)[i].session]
                 = SelectSeq(ScopeSessions,
                             LAMBDA x : x \in Range(origin_proj.sessions[sub]))

\* C5: a session or acquisition matcher reuses a destination child only if
\* that child has both the effective label (the config's override, else the
\* origin's own) and info.export.origin_id = hash(origin id).
C5_MatchNeedsLabelAndOriginId ==
    (lastMatch.type \in {"session", "acquisition"} /\ lastMatch.found # 0) =>
        /\ lastMatch.prev_label = lastMatch.spec_label
        /\ lastMatch.prev_origin_id = lastMatch.digest

\* C6: no two subjects of the destination project have the same code.
C6_UniqueSubjectCodes ==
    \A i, j \in 1..Len(dest.subject) :
        dest.subject[i].label = dest.subject[j].label => i = j

\* A subject created from one origin subject has been reused for another
\* origin subject with the same effective code.
C6_Witness ==
    /\ lastMatch.type = "subject"
    /\ lastMatch.found # 0
    /\ lastMatch.prev_origin_id # lastMatch.digest

\* C7: the keys of a payload create_metadata_dict returns are among the
\* container type's fixed whitelist and 'info'.
C7_WhitelistClosure ==
    meta_dict.raised = "" =>
        PayloadKeys(meta_dict) \subseteq Range(META_WHITELIST_DICT[arg_type]) \cup {"info"}

\* The config's metadata list names 'label', which no type permits and the
\* origin has, next to fields that are permitted and were copied.
C7_Witness ==
    /\ meta_dict.raised = ""
    /\ arg_config.metadata.tag = "list"
    /\ "label" \in Range(arg_config.metadata.list)
    /\ "label" \in DOMAIN arg_origin.fields
    /\ DOMAIN meta_dict.fields # {}

\* C8: for an origin with an id, create_metadata_dict returns a payload whose
\* info.export.origin_id is hash_string(origin id).
C8_StampAlwaysSet ==
    (mdCalls > 0 /\ Truthy(arg_origin.id)) =>
        /\ meta_dict.raised = ""
        /\ "export" \in DOMAIN meta_dict.info
        /\ meta_dict.info["export"] = ExportStamp(arg_origin.id)

\* C9: when export_container returns, every session of the scope has been
\* reported, in order, and error_count is the number of error rows over all
\* those reports.
C9_ReturnedCountIsErrorRows ==
    pc = "returned" =>
        /\ [i \in 1..Len(reports) |-> reports[i].session] = ScopeSessions
        /\ error_count = SumErrorRows(reports)

\* export_container has returned a count made of synthesized rows of one
\* subject and an error row of a real export of another.
C9_Witness ==
    /\ pc = "returned"
    /\ \E i \in 1..Len(reports) : reports[i].synthesized
    /\ \E i \in 1..Len(reports) :
          ~reports[i].synthesized /\ ErrorRowCount(reports[i].rows) >= 1
    /\ error_count >= 3

ThreeSessionSubjects ==
    {sub \in Range(origin_proj.subjects) : Len(origin_proj.sessions[sub]) = 3}

\* _export_subject(sub, project_files=True) is over: sub is the first subject
\* of a project-scope run that has ended, its template derivation not failing.
ExportedWithProjectFiles(sub) ==
    /\ container.type = "project"
    /\ sub = origin_proj.subjects[1]
    /\ sub \notin FailedDerivations
    /\ pc \in {"returned", "raised"}

\* The first of the three job lists holds the project-level and the
\* subject-level files, the other two hold neither.
Deduplicated(sub) ==
    /\ Len(ReportsOf(sub)) = 3
    /\ \A i \in 1..3 : ~ReportsOf(sub)[i].synthesized
    /\ HasLevel(ReportsOf(sub)[1], "project")
    /\ HasLevel(ReportsOf(sub)[1], "subject")
    /\ \A i \in 2..3 :
          /\ ~HasLevel(ReportsOf(sub)[i], "project")
          /\ ~HasLevel(ReportsOf(sub)[i], "subject")

\* C10: exporting a subject with three sessions with project_files requested
\* gives three job lists, of which the first holds the project-level and the
\* subject-level files and the other two hold neither.
C10_ScopeFileDedup ==
    \A sub \in ThreeSessionSubjects :
        ExportedWithProjectFiles(sub) => Deduplicated(sub)

\* With the subject-code table given, the same export does end deduplicated.
ScopeFileDedupWithTable ==
    \A sub \in ThreeSessionSubjects :
        (ExportedWithProjectFiles(sub) /\ df # None) => Deduplicated(sub)

ScopeFileDedupWithTable_Reached ==
    \E sub \in ThreeSessionSubjects :
        ExportedWithProjectFiles(sub) /\ df # None /\ Deduplicated(sub)

\* The first session of the first subject of the project, <<>> if that
\* subject has none.
FirstSessionOfRun ==
    IF origin_proj.subjects = <<>> \/ origin_proj.sessions[origin_proj.subjects[1]] = <<>>
    THEN <<>>
    ELSE <<origin_proj.sessions[origin_proj.subjects[1]][1]>>

FirstSessionOf(sub) ==
    IF origin_proj.sessions[sub] = <<>> THEN <<>> ELSE <<origin_proj.sessions[sub][1]>>

\* C11: in project scope a session is handed to _export_session with
\* project_files = True exactly when it is the first session of the first
\* subject iterated; in project and subject scope a session is handed over
\* with subject_files = True exactly when it is the first session of its
\* subject.  This is so for the call about to be made and for every call
\* that has returned.
C11_FlagsFirstSessionOnly ==
    /\ (pc = "subject_loop" /\ pending # <<>>) =>
          /\ container.type = "project" =>
                (project_files <=> <<Head(pending)>> = FirstSessionOfRun)
          /\ subject_files <=> <<Head(pending)>> = FirstSessionOf(subject_obj)
    /\ container.type \in {"project", "subject"} =>
          \A i \in 1..Len(reports) :
              /\ container.type = "project" =>
                    (reports[i].project_files <=> <<reports[i].session>> = FirstSessionOfRun)
              /\ reports[i].subject_files
                    <=> <<reports[i].session>> = FirstSessionOf(reports[i].subject)

\* A project run has returned after the three sessions of its first subject
\* and the one session of its second.
C11_Witness ==
    /\ pc = "returned"
    /\ container.type = "project"
    /\ Len(reports) = 4
    /\ reports[1].project_files /\ reports[1].subject_files
    /\ ~reports[2].subject_files /\ ~reports[3].project_files
    /\ reports[4].subject /= reports[1].subject
    /\ reports[4].subject_files /\ ~reports[4].project_files

\* What the file at csv_output_path held before export_container was called.
CsvBefore == IF csv_file.path = OldCsv.path THEN OldCsv ELSE NewCsv

RECURSIVE RowsOfReports(_)
RowsOfReports(rs) ==
    IF rs = <<>> THEN <<>> ELSE Head(rs).rows \o RowsOfReports(Tail(rs))

\* C12: with a csv_output_path, the file exists exactly if it was there
\* before or a non-empty report has been written; it then holds one header
\* line, and its rows are those it held before followed by the rows of the
\* reports in the order they were produced.
C12_ReportAppend ==
    csv_file.path # None =>
        /\ csv_file.exists <=> (CsvBefore.exists \/ RowsOfReports(reports) # <<>>)
        /\ csv_file.exists => csv_file.headers = 1
        /\ csv_file.rows = CsvBefore.rows \o RowsOfReports(reports)

\* A run that found the file of an earlier run has appended two reports.
C12_Witness ==
    /\ csv_file.path = OldCsv.path
    /\ Len(reports) >= 2
    /\ Len(csv_file.rows) >= Len(OldCsv.rows) + 2

\* A run that started without the file has written two reports.
C12_WitnessNewFile ==
    /\ csv_file.path = NewCsv.path
    /\ Len(reports) >= 2
    /\ csv_file.exists

\* _export_session is about to be called with a customized template.
AboutToExportWithCustomTemplate ==
    /\ \/ pc = "subject_loop" /\ pending # <<>>
       \/ pc = "session_export"
    /\ subj_template_path \notin {TemplatePath, Unbound}

\* C13: whenever a session is about to be exported with a subject's
\* customized template, the temporary directory holding that template
\* exists, and it existed for every session export that has returned.
C13_TemplateDirAlive ==
    /\ AboutToExportWithCustomTemplate => subj_template_path \in temp_dirs
    /\ \A i \in 1..Len(reports) : reports[i].template_exists

\* In project and subject scope the directory does outlive the sessions.
TemplateDirAliveInSubjectLoop ==
    container.type \in {"project", "subject"} => C13_TemplateDirAlive

\* C14: when export_container has returned or raised, no temporary template
\* directory it created is left.
C14_TempDirsRemoved ==
    pc \in {"returned", "raised"} => temp_dirs = {}

\* export_container has raised out of the export of a subject's second
\* session, the first one exported with the template in the directory.
C14_Witness ==
    /\ pc = "raised"
    /\ exception = "TypeError"
    /\ Len(reports) >= 1
    /\ reports[Len(reports)].template_exists
    /\ df # None
    /\ temp_dirs = {}

FilePairs(rows) ==
    {<<rows[i].origin_parent, rows[i].origin_filename>> : i \in 1..Len(rows)}

\* The files a real export of the session would build jobs for.
WouldExport(session_id, want_project, want_subject) ==
    FilePairs(initialize_files(EmptyStore, origin_proj, session_id, export_config,
                               want_project, want_subject).files)

\* C15: the rows synthesized for a session name exactly the files a real
\* export of it with the same project_files and subject_files flags and the
\* template's file types would have built jobs for; each is in error with the
\* upstream message, and nothing was exported.
C15_SynthesizedRowsCoverRealJobs ==
    \A i \in 1..Len(reports) :
        reports[i].synthesized =>
            /\ FilePairs(reports[i].rows)
                  = WouldExport(reports[i].session, reports[i].project_files,
                                reports[i].subject_files)
            /\ \A j \in 1..Len(reports[i].rows) :
                  /\ reports[i].rows[j].state = "error"
                  /\ reports[i].rows[j].errors = DerivationMessage(TRUE)
            /\ ~reports[i].touched

\* For the later sessions of a subject, exported with both flags False, the
\* synthesized rows do name the files of a real export.
SynthesizedRowsOfLaterSessions ==
    \A i \in 1..Len(reports) :
        (reports[i].synthesized /\ ~reports[i].project_files
            /\ ~reports[i].subject_files) =>
            FilePairs(reports[i].rows) = WouldExport(reports[i].session, FALSE, FALSE)

Quoted(str) == <<"\"">> \o str \o <<"\"">>

\* Digits only, or digits with one decimal point after the first of them.
AllDigitWithOptionalPoint(str) ==
    /\ Len(str) >= 1
    /\ str[1] \in Digits
    /\ \A i \in 1..Len(str) : str[i] \in Digits \cup {"."}
    /\ Cardinality({i \in 1..Len(str) : str[i] = "."}) <= 1

\* C16: quote_numeric_string returns its input (a non-string in its string
\* form) wrapped in double quotes exactly when it is an all-digit string
\* optionally containing one decimal point, and unchanged otherwise.
C16_QuotesExactlyNumericStrings ==
    quote_output # NotQuoted =>
        quote_output = IF AllDigitWithOptionalPoint(quote_input.s)
                       THEN Quoted(quote_input.s)
                       ELSE quote_input.s

\* Without a newline in the input the rule is as stated.
QuotesNumericStringsWithoutNewline ==
    (quote_output # NotQuoted /\ "\n" \notin Range(quote_input.s)) =>
        quote_output = IF AllDigitWithOptionalPoint(quote_input.s)
                       THEN Quoted(quote_input.s)
                       ELSE quote_input.s

\* C17: for a container that is no project, subject or session,
\* export_container does nothing but raise: it never returns, the exception
\* is the ValueError of the type check, and the destination, the report file
\* and the reports are as they were before the call.
C17_UnsupportedTypeRejected ==
    container.type \notin {"project", "subject", "session"} =>
        /\ pc \in {"dispatch", "raised"}
        /\ pc = "raised" => exception = "ValueError"
        /\ dest = EmptyStore
        /\ reports = <<>>
        /\ derived = <<>>
        /\ temp_dirs = {}
        /\ csv_file \in {NoCsv, NewCsv, OldCsv}

\* export_container has raised for an acquisition.
C17_Witness ==
    /\ container.type = "acquisition"
    /\ pc = "raised"
    /\ exception = "ValueError"

\* An origin hierarchy of one subject, one session and one acquisition.
SmallTree(sub, sess, acq) ==
    OriginTree(<<sub>>, (sub :> <<sess>>), (sess :> <<acq>>),
               (sub :> <<"4", "2">>) @@ (sess :> <<"b">>) @@ (acq :> <<"9">>),
               (OriginProject :> <<>>) @@ (sub :> <<>>) @@ (sess :> <<>>)
                  @@ (acq :> <<>>))

\* A destination that already holds a subject, a session and an acquisition
\* with the codes/labels of SmallTree, stamped for the origin id.
StampedPayload(id) == [info |-> ("export" :> ExportStamp(id)), fields |-> EmptyDict]

StoreHolding(id) ==
    AddChild(AddChild(AddChild(EmptyStore, "subject", DestProject, <<"4", "2">>,
                               StampedPayload(id)),
                      "session", 1, <<"b">>, StampedPayload(id)),
             "acquisition", 2, <<"9">>, StampedPayload(id))

\* The three matchers called for an origin whose id is id, against store.
MatcherCalls(store, id, config) ==
    {find_or_create_subject(store, SmallTree(id, "s1", "a1"), id, config),
     find_or_create_subject_session(store, SmallTree("sub1", id, "a1"), id, 1, config),
     find_or_create_session_acquisition(store, SmallTree("sub1", "s1", id), id, 2,
                                        config)}

\* C18: for an origin without an id (None or empty) create_metadata_dict
\* raises its ValueError and returns no payload, whatever the type and the
\* config; and each matcher called for such an origin raises and leaves the
\* destination as it was, whether or not a child to reuse is there.
C18_NoIdRejected ==
    (mdCalls > 0 /\ ~Truthy(arg_origin.id)) =>
        /\ meta_dict.raised = "ValueError"
        /\ meta_dict.info = EmptyDict
        /\ meta_dict.fields = EmptyDict
        /\ \A store \in {EmptyStore, StoreHolding(arg_origin.id)} :
              \A r \in MatcherCalls(store, arg_origin.id, arg_config) :
                  r.raised # "" /\ r.store = store

\* create_metadata_dict has been called with an origin whose id is empty and
\* a config naming fields the origin has.
C18_Witness ==
    /\ mdCalls > 0
    /\ arg_origin.id = ""
    /\ arg_config.metadata.tag = "list"
    /\ DOMAIN arg_origin.fields # {}
    /\ meta_dict.raised = "ValueError"

\* The fields the config's metadata whitelist selects: those of an explicit
\* list, every field of the type for 'all', none otherwise.
SelectedByMetadataWhitelist ==
    IF ~(arg_config.isdict /\ arg_config.haswl) THEN {}
    ELSE IF arg_config.metadata.tag = "list" THEN Range(arg_config.metadata.list)
    ELSE IF arg_config.metadata.tag = "str" /\ Lower(arg_config.metadata.str) = "all"
    THEN Range(META_WHITELIST_DICT[arg_type])
    ELSE {}

\* C19: the top-level fields of a returned payload are exactly those in the
\* type's fixed whitelist that the metadata whitelist selects and the origin
\* has (whatever their value, 0 or the empty string included), each with the
\* origin's value.
C19_CopiesExactlySelectedFields ==
    meta_dict.raised = "" =>
        /\ DOMAIN meta_dict.fields
              = Range(META_WHITELIST_DICT[arg_type]) \cap SelectedByMetadataWhitelist
                   \cap DOMAIN arg_origin.fields
        /\ \A k \in DOMAIN meta_dict.fields : meta_dict.fields[k] = arg_origin.fields[k]

\* Counting a field as present only when Python's truth test accepts its
\* value, the copied fields are as stated.
CopiesExactlySelectedTruthyFields ==
    meta_dict.raised = "" =>
        /\ DOMAIN meta_dict.fields
              = {k \in Range(META_WHITELIST_DICT[arg_type]) \cap SelectedByMetadataWhitelist
                          \cap DOMAIN arg_origin.fields : Truthy(arg_origin.fields[k])}
        /\ \A k \in DOMAIN meta_dict.fields : meta_dict.fields[k] = arg_origin.fields[k]

\* C20: a call of create_metadata_dict leaves the config and the origin
\* snapshot it was given as they were.
C20_InputsUnchanged ==
    [][arg_config' = arg_config /\ arg_origin' = arg_origin]_vars

\* With neither 'info' in the metadata whitelist nor 'all' as the info
\* whitelist, the inputs are left alone.
InputsUnchangedWithoutInfoAll ==
    [][(~InfoAllRequested(arg_config) /\ "info" \notin Range(MetaWl(arg_type, arg_config)))
          => (arg_config' = arg_config /\ arg_origin' = arg_origin)]_vars

\* C21: the code/label a matcher queries for and creates with is the
\* config's override when the config has one and the origin's own otherwise;
\* so a child it reuses has that label, and a child it creates gets it.
C21_EffectiveLabelUsed ==
    lastMatch.type \in {"subject", "session", "acquisition"} =>
        /\ lastMatch.label = lastMatch.spec_label
        /\ lastMatch.found # 0 => lastMatch.prev_label = lastMatch.spec_label
        /\ \A i \in 1..Len(dest[lastMatch.type]) :
              dest[lastMatch.type][i].id = lastMatch.id
                 => dest[lastMatch.type][i].label = lastMatch.spec_label

\* The subject and the session matcher do use the effective code/label.
EffectiveLabelUsedAboveAcquisitions ==
    lastMatch.type \in {"subject", "session"} =>
        /\ lastMatch.label = lastMatch.spec_label
        /\ lastMatch.found # 0 => lastMatch.prev_label = lastMatch.spec_label

\* The origin files of a container whose type the template allows, as
\* <<level, container, file name>>, in listing order.
AllowedFilesOf(id, level) ==
    LET keep == SelectSeq(origin_proj.files[id],
                          LAMBDA x : x.type \in Range(export_config.file_types))
    IN  [j \in 1..Len(keep) |-> <<level, id, keep[j].name>>]

RECURSIVE AllowedFilesOfAll(_)
AllowedFilesOfAll(acqs) ==
    IF acqs = <<>> THEN <<>>
    ELSE AllowedFilesOf(Head(acqs), "acquisition") \o AllowedFilesOfAll(Tail(acqs))

ExpectedJobs(session_id, want_project, want_subject) ==
    (IF want_project THEN AllowedFilesOf(OriginProject, "project") ELSE <<>>)
    \o (IF want_subject
        THEN AllowedFilesOf(SubjectOf(origin_proj, session_id), "subject") ELSE <<>>)
    \o AllowedFilesOf(session_id, "session")
    \o AllowedFilesOfAll(origin_proj.acquisitions[session_id])

JobsOf(report) ==
    [j \in 1..Len(report.rows) |->
        <<report.rows[j].origin_parent_type, report.rows[j].origin_parent,
          report.rows[j].origin_filename>>]

\* Every destination acquisition was made after the session it is in, and
\* every destination session after the subject it is in.
ParentsResolvedFirst ==
    /\ \A i \in 1..Len(dest.acquisition) :
          \E k \in 1..Len(dest.session) :
              /\ dest.session[k].id = dest.acquisition[i].parent
              /\ dest.session[k].id < dest.acquisition[i].id
    /\ \A k \in 1..Len(dest.session) :
          \E m \in 1..Len(dest.subject) :
              /\ dest.subject[m].id = dest.session[k].parent
              /\ dest.subject[m].id < dest.session[k].id

\* C22: the job list of an exported session is, in this order, the
\* project-level jobs if project_files was asked for, the subject-level jobs
\* if subject_files was, the session-level jobs and the jobs of each origin
\* acquisition, one per origin file of an allowed type and no other; each
\* job's destination exists; and the destination subject and session were
\* resolved before any acquisition.
C22_JobListInOrder ==
    /\ ParentsResolvedFirst
    /\ \A i \in 1..Len(reports) :
          ~reports[i].synthesized =>
              /\ JobsOf(reports[i])
                    = ExpectedJobs(reports[i].session, reports[i].project_files,
                                   reports[i].subject_files)
              /\ \A j \in 1..Len(reports[i].rows) :
                    LET row == reports[i].rows[j]
                        level == row.origin_parent_type
                    IN  /\ Len(row.export_parent) = 1
                        /\ IF level = "project" THEN row.export_parent[1] = DestProject
                           ELSE \E k \in 1..Len(dest[level]) :
                                   dest[level][k].id = row.export_parent[1]

\* A session has been exported with both flags set; its job list has the
\* project's, the subject's, the session's and the acquisition's file, and
\* the subject's text file has no job.
C22_Witness ==
    \E i \in 1..Len(reports) :
        /\ ~reports[i].synthesized
        /\ reports[i].project_files /\ reports[i].subject_files
        /\ Len(reports[i].rows) = 4
        /\ reports[i].rows[1].origin_parent_type = "project"
        /\ reports[i].rows[4].origin_parent_type = "acquisition"
        /\ Len(origin_proj.files[reports[i].subject]) = 2

SameFile(row, job) ==
    /\ row.origin_parent = job.origin_parent
    /\ row.origin_filename = job.origin_filename

\* C23: when local_file_export has returned, every worker has finished, and
\* the result has as many entries as jobs were submitted, exactly one for
\* each job, whatever order the workers ran and finished in.
C23_AllJobsReportedOnce ==
    export_df.returned =>
        /\ \A i \in 1..Len(workers) : workers[i].pc = "done"
        /\ Len(export_df.rows) = Len(file_list)
        /\ \A i \in 1..Len(file_list) :
              Cardinality({j \in 1..Len(export_df.rows) :
                              SameFile(export_df.rows[j], file_list[i])}) = 1

\* The pool has returned for three jobs that all went through.
C23_Witness ==
    /\ export_df.returned
    /\ Len(file_list) = 3
    /\ \A i \in 1..3 : workers[i].outcome = "ok"

\* A later job can finish while an earlier one is still running.
FinishesOutOfOrder ==
    \E i, j \in 1..Len(workers) :
        i < j /\ workers[j].pc = "done" /\ workers[i].pc \in {"constructed", "settling"}

C25_EmptySessionSkipped ==
    ~ /\ pc = "raised"
      /\ exception \in {"TypeError", "KeyError"}
      /\ container.type \in {"project", "subject"}
      /\ pending # <<>>
      /\ WouldExport(Head(pending), project_files, subject_files) = {}

\* The sessions of the run that were handed project_files = True and, where
\* the export was a real one, whose job list holds a project-level file.
ReportsWithProjectFiles ==
    {i \in 1..Len(reports) :
        /\ reports[i].project_files
        /\ reports[i].synthesized \/ HasLevel(reports[i], "project")}

\* C26: when a project-scope export of a project with at least one session
\* has returned, exactly one session's job list held the project-level files.
C26_ProjectFilesExactlyOnce ==
    (/\ pc = "returned"
     /\ container.type = "project"
     /\ AllSessions(origin_proj) # {}) =>
        Cardinality(ReportsWithProjectFiles) = 1

\* The same where the first subject iterated has a session.
ProjectFilesOnceWhenFirstSubjectHasSessions ==
    (/\ pc = "returned"
     /\ container.type = "project"
     /\ origin_proj.sessions[Head(origin_proj.subjects)] # <<>>) =>
        Cardinality(ReportsWithProjectFiles) = 1

====
